---- MODULE Spec2Model ----
(***************************************************************************)
(* Model of n8n-nodes-pollinations:                                        *)
(*   the asynchronous submit / poll / fetch-result adapter (BaseFalModel,  *)
(*   src/credentials/PollinationsApi.credentials.ts, lines 99-474), alone  *)
(*   and as two instances on one event loop;                               *)
(*   the Pollinations node (execute and executeTool, src/unnamed/part_006);*)
(*   the streaming client (OpenResponsesClient.streamResponse);            *)
(*   the agent tools (generate_image, generate_video, generate_text);      *)
(*   the chat model instances (bindTools, withConfig, invoke, batch,       *)
(*   src/unnamed/part_009).                                                *)
(*                                                                         *)
(* Strings are sequences of tokens (each token a piece of text), so that  *)
(* concatenation, startsWith, includes and trim are computed and not      *)
(* assumed.  JavaScript values are tagged records [t, v]: t is the typeof  *)
(* tag ("null" kept apart from "object"), v the text of the value.         *)
(***************************************************************************)
EXTENDS Integers, Sequences, FiniteSets, TLC

\* ------------------------------------------------------------------ bounds
\* Largest number of status polls of one invocation that is explored.
MaxPolls == 3

\* Largest number of path segments of an endpoint given to getStatusBasePath
\* on its own.
MaxSegments == 3

\* Largest number of ensureApiKey calls after which the adapter's caller still
\* makes a direct call.
MaxCalls == 3

\* Largest number of input items of one execution of the node.
MaxItems == 3

\* Largest number of lines of a streamed response.
MaxLines == 3

\* Largest number of bindTools, withConfig and invoke calls on a chat model
\* and the instances made from it.
MaxChatCalls == 4

\* Largest number of inputs of one batch.
MaxBatch == 3

\* How many times the event loop goes from one running executeAsync to the
\* other while both are in flight.
MaxSwitches == 2

\* Status polls each of two concurrent invocations makes at most.
MaxPairPolls == 1

\* ------------------------------------------------------- JavaScript values
Undef == [t |-> "undefined", v |-> <<>>]
Null == [t |-> "null", v |-> <<>>]
Str(s) == [t |-> "string", v |-> s]
Num(s) == [t |-> "number", v |-> s]
Bool(s) == [t |-> "boolean", v |-> s]
Obj(s) == [t |-> "object", v |-> s]

\* the empty string
EmptyStr == Str(<<>>)

\* Variant of Truthy that takes the empty string for a value.
TruthyEmptyOk(x) ==
    CASE x.t = "undefined" -> FALSE
      [] x.t = "null" -> FALSE
      [] x.t = "string" -> TRUE
      [] x.t = "number" -> x.v # <<"0">>
      [] x.t = "boolean" -> x.v = <<"true">>
      [] OTHER -> TRUE

\* JavaScript truthiness, as used by !x, x || y and if (x).
Truthy(x) ==
    CASE x.t = "undefined" -> FALSE
      [] x.t = "null" -> FALSE
      [] x.t = "string" -> x.v # <<>>
      [] x.t = "number" -> x.v # <<"0">>
      [] x.t = "boolean" -> x.v = <<"true">>
      [] OTHER -> TRUE

\* ------------------------------------------------------------ string tools
\* the white space of the strings modelled
WhiteSpace == {" ", "\r"}

RECURSIVE TrimStart(_)
TrimStart(s) == IF s # <<>> /\ Head(s) \in WhiteSpace THEN TrimStart(Tail(s)) ELSE s

RECURSIVE TrimEnd(_)
TrimEnd(s) ==
    IF s # <<>> /\ s[Len(s)] \in WhiteSpace THEN TrimEnd(SubSeq(s, 1, Len(s) - 1)) ELSE s

\* Variant of Trim that leaves trailing white space.
TrimLeftOnly(s) == TrimStart(s)

\* String.prototype.trim
Trim(s) == TrimEnd(TrimStart(s))

\* String.prototype.startsWith, and a regular expression ^(literal)
StartsWith(s, p) == Len(p) <= Len(s) /\ SubSeq(s, 1, Len(p)) = p

\* String.prototype.includes
Includes(s, p) ==
    \E i \in 1..(Len(s) + 1) :
        i + Len(p) - 1 <= Len(s) /\ SubSeq(s, i, i + Len(p) - 1) = p

\* ------------------------------------------------------------- the adapter
asyncBaseUrl == <<"https://queue.fal.run">>

pollInterval == 2000

KlingPrefix == <<"/", "fal-ai", "/", "kling-video">>
WanPrefix == <<"/", "wan", "/", "v2.6">>
ZImagePrefix == <<"/", "fal-ai", "/", "z-image">>
NanoPrefix == <<"/", "fal-ai", "/", "nano-banana-pro">>
BytedancePrefix == <<"/", "fal-ai", "/", "bytedance">>

\* Variant of getStatusBasePath that always polls under the full endpoint.
getStatusBasePathFull(endpoint) == endpoint

\* Variant of getStatusBasePath as it was before the bytedance family was added.
getStatusBasePathNoBytedance(endpoint) ==
    IF Includes(endpoint, <<"/", "kling-video", "/">>) /\ StartsWith(endpoint, KlingPrefix)
    THEN KlingPrefix
    ELSE IF StartsWith(endpoint, WanPrefix \o <<"/">>)
    THEN WanPrefix
    ELSE IF Includes(endpoint, <<"/", "z-image", "/">>) /\ StartsWith(endpoint, ZImagePrefix)
    THEN ZImagePrefix
    ELSE IF Includes(endpoint, <<"/", "nano-banana-pro", "/">>) /\ StartsWith(endpoint, NanoPrefix)
    THEN NanoPrefix
    ELSE endpoint

getStatusBasePath(endpoint) ==
    IF Includes(endpoint, <<"/", "kling-video", "/">>) /\ StartsWith(endpoint, KlingPrefix)
    THEN KlingPrefix
    ELSE IF StartsWith(endpoint, WanPrefix \o <<"/">>)
    THEN WanPrefix
    ELSE IF Includes(endpoint, <<"/", "z-image", "/">>) /\ StartsWith(endpoint, ZImagePrefix)
    THEN ZImagePrefix
    ELSE IF Includes(endpoint, <<"/", "nano-banana-pro", "/">>) /\ StartsWith(endpoint, NanoPrefix)
    THEN NanoPrefix
    ELSE IF Includes(endpoint, <<"/", "bytedance", "/">>) /\ StartsWith(endpoint, BytedancePrefix)
    THEN BytedancePrefix
    ELSE endpoint

\* Variant of AsyncUrl that submits to the synchronous base URL.
AsyncUrlSync(endpoint) == <<"https://fal.run">> \o endpoint

\* `${asyncBase}${endpoint}`
AsyncUrl(endpoint) == asyncBaseUrl \o endpoint

\* `${asyncBase}${statusBasePath}/requests/${requestId}/status`
StatusUrl(basePath, id) ==
    asyncBaseUrl \o basePath \o <<"/", "requests", "/">> \o id \o <<"/", "status">>

\* Variant of ResultUrl that asks the status endpoint again.
ResultUrlToStatus(basePath, id) == StatusUrl(basePath, id)

\* `${asyncBase}${statusBasePath}/requests/${requestId}`
ResultUrl(basePath, id) ==
    asyncBaseUrl \o basePath \o <<"/", "requests", "/">> \o id

\* ------------------------------------------------------------ error values
\* A thrown error as its catcher reads it: message, description and the
\* optional response object (hasResponse, with its statusCode).
NoError == [message |-> <<>>, description |-> <<>>, hasResponse |-> FALSE, statusCode |-> 0]

\* new NodeOperationError(node, message, {itemIndex, description}): the
\* constructor is given a message and a description and nothing else, so the
\* error object has no response property.
NodeOperationError(message, description) ==
    [message |-> message, description |-> description, hasResponse |-> FALSE, statusCode |-> 0]

\* err.response?.statusCode (0 stands for undefined)
StatusCodeOf(err) == IF err.hasResponse THEN err.statusCode ELSE 0

\* ------------------------------------------------------- credential store
\* What executeFunctions.getCredentials('falApi') resolves to: t is its typeof
\* tag, keys the object's own keys, apiKey the value of credentials.apiKey.
Cred(t, keys, apiKey) == [t |-> t, keys |-> keys, apiKey |-> apiKey]

\* !credentials
CredFalsy(c) == c.t \in {"undefined", "null"} \/ (c.t = "string" /\ c.keys = {})

\* The outcome of an async call: threw, the value returned, the error thrown,
\* the adapter's apiKey afterwards, the credential-store lookups and the HTTP
\* calls it made.
CredNotFound ==
    NodeOperationError(<<"FAL API credentials not found. Please select the FAL API credential in the node settings.">>, <<>>)

getCredentialsAsync(c) ==
    IF CredFalsy(c) \/ c.t # "object"
    THEN [threw |-> TRUE, error |-> CredNotFound]
    ELSE [threw |-> FALSE, error |-> NoError]

\* ensureApiKey, lines 165-226: the lookup, the validation and the caching.
resolveApiKey(key, c) ==
    LET g == getCredentialsAsync(c)
        fail(m) == [threw |-> TRUE, error |-> NodeOperationError(m, <<>>),
                    apiKey |-> key, lookups |-> 1]
        apiKeyString == Trim(c.apiKey.v)
    IN IF g.threw
       THEN [threw |-> TRUE, error |-> g.error, apiKey |-> key, lookups |-> 1]
       ELSE IF c.keys = {}
       THEN fail(<<"FAL API credentials are empty. The credential was selected but contains no data.">>)
       ELSE IF ~Truthy(c.apiKey)
       THEN fail(<<"FAL API Key is required. Found keys in credentials: ">>)
       ELSE IF c.apiKey.t \notin {"string", "number"}
       THEN fail(<<"Invalid FAL API Key type. Expected string or number, got ", c.apiKey.t>>)
       ELSE IF apiKeyString = <<>>
       THEN fail(<<"FAL API Key is empty. Please enter a valid API key in your credential configuration.">>)
       ELSE [threw |-> FALSE, error |-> NoError, apiKey |-> Str(apiKeyString), lookups |-> 1]

\* Variant of ensureApiKey without the early return on a cached key.
ensureApiKeyAlways(key, c) == resolveApiKey(key, c)

ensureApiKey(key, c) ==
    IF key.t # "null"
    THEN [threw |-> FALSE, error |-> NoError, apiKey |-> key, lookups |-> 0]
    ELSE resolveApiKey(key, c)

\* ------------------------------------------------------------- HTTP layer
\* A JSON response body, reduced to the fields executeAsync reads.
Body(request_id, status, images, video, output, error) ==
    [request_id |-> request_id, status |-> status, images |-> images,
     video |-> video, output |-> output, error |-> error]

EmptyBody == Body(Undef, Undef, Undef, Undef, Undef, Undef)

\* What helpers.httpRequest does with one request: it resolves to a body, or
\* rejects with an error that has a response (statusCode, body.detail,
\* body.message) or has none (transport failure), and a message.
HttpOk(body) ==
    [ok |-> TRUE, body |-> body, hasResponse |-> TRUE, statusCode |-> 200,
     detail |-> Undef, bodyMessage |-> Undef, message |-> Undef]

HttpFail(code, detail, bodyMessage, message) ==
    [ok |-> FALSE, body |-> EmptyBody, hasResponse |-> TRUE, statusCode |-> code,
     detail |-> detail, bodyMessage |-> bodyMessage, message |-> message]

TransportFail(message) ==
    [ok |-> FALSE, body |-> EmptyBody, hasResponse |-> FALSE, statusCode |-> 0,
     detail |-> Undef, bodyMessage |-> Undef, message |-> message]

\* One entry of the invocation's observable trace: an HTTP call with what the
\* transport answered, or a busy wait.
HttpEvent(method, url, raw) ==
    [kind |-> "http", method |-> method, url |-> url, ms |-> 0,
     ok |-> raw.ok, hasResponse |-> raw.hasResponse, code |-> raw.statusCode,
     body |-> raw.body]

WaitEvent(ms) ==
    [kind |-> "wait", method |-> "", url |-> <<>>, ms |-> ms,
     ok |-> TRUE, hasResponse |-> FALSE, code |-> 0, body |-> EmptyBody]

\* a || b on strings
OrElse(a, b) == IF Truthy(a) THEN a ELSE b

\* The request text that makeRequest appends to every error message.
\* Variant of RequestDetails that redacts the Authorization header.
RequestDetailsRedacted(method, url, key, hasBody) ==
    <<"\n\nRequest Details:\nMethod: ", method, "\nURL: ">> \o url
      \o <<"\nHeaders: ", "Content-Type: application/json", "Authorization: Key ", "***">>
      \o <<IF hasBody THEN "\nBody: {...}" ELSE "\nBody: (empty)">>

RequestDetails(method, url, key, hasBody) ==
    <<"\n\nRequest Details:\nMethod: ", method, "\nURL: ">> \o url
      \o <<"\nHeaders: ", "Content-Type: application/json", "Authorization: Key ">>
      \o key.v \o <<IF hasBody THEN "\nBody: {...}" ELSE "\nBody: (empty)">>

\* The catch block of makeRequest: the error it throws for a rejected request.
MakeRequestError(method, url, key, hasBody, raw) ==
    IF raw.hasResponse
    THEN NodeOperationError(
             <<"API request failed: ">>
               \o OrElse(raw.detail, OrElse(raw.bodyMessage, OrElse(raw.message, Str(<<"Unknown error">>)))).v
               \o RequestDetails(method, url, key, hasBody)
               \o <<"\n\nResponse Status: ", ToString(raw.statusCode)>>,
             <<"URL: ">> \o url \o <<", Status: ", ToString(raw.statusCode)>>)
    ELSE NodeOperationError(
             <<"API request failed: ">>
               \o OrElse(raw.message, Str(<<"Unknown error">>)).v
               \o RequestDetails(method, url, key, hasBody),
             <<"URL: ">> \o url)

\* makeRequest(method, url, body): ensureApiKey, then one httpRequest whose
\* outcome is raw.
makeRequest(key, c, method, url, hasBody, raw) ==
    LET e == ensureApiKey(key, c)
    IN IF e.threw
       THEN [threw |-> TRUE, value |-> EmptyBody, error |-> e.error,
             apiKey |-> e.apiKey, lookups |-> e.lookups, events |-> <<>>]
       ELSE [threw |-> ~raw.ok, value |-> raw.body,
             error |-> IF raw.ok THEN NoError
                       ELSE MakeRequestError(method, url, e.apiKey, hasBody, raw),
             apiKey |-> e.apiKey, lookups |-> e.lookups,
             events |-> <<HttpEvent(method, url, raw)>>]

\* ----------------------------------------------------------- executeAsync
\* Variant of HasResultFields that overlooks the output field.
HasResultFieldsNoOutput(r) == Truthy(r.video) \/ Truthy(r.images)

\* r.video || r.images || r.output
HasResultFields(r) == Truthy(r.video) \/ Truthy(r.images) \/ Truthy(r.output)

\* Variant of IsCompleted that ignores the case of the status text.
IsCompletedAnyCase(r) == r.status \in {Str(<<"COMPLETED">>), Str(<<"completed">>)}

\* statusResponse.status === 'COMPLETED'
IsCompleted(r) == r.status = Str(<<"COMPLETED">>)

\* Variant of IsFailed that expects the status text in lower case.
IsFailedLowerCase(r) == r.status = Str(<<"failed">>)

\* statusResponse.status === 'FAILED'
IsFailed(r) == r.status = Str(<<"FAILED">>)

\* Variant of FailedMessage that drops the upstream error text.
FailedMessageGeneric(r) == <<"Async request failed: ", "Unknown error">>

\* `Async request failed: ${statusResponse.error || 'Unknown error'}`
FailedMessage(r) ==
    <<"Async request failed: ">> \o OrElse(r.error, Str(<<"Unknown error">>)).v

\* The adapter's response normalizer: the media fields of the raw payload.
processAsyncResponse(r) == [images |-> r.images, video |-> r.video, output |-> r.output]

\* { json: processAsyncResponse(r), pairedItem: { item: itemIndex } }
ExecutionData(r, idx) == [json |-> processAsyncResponse(r), pairedItem |-> idx]

NoResult == [json |-> processAsyncResponse(EmptyBody), pairedItem |-> -1]

\* Variant of delay that does not wait.
delayNone(ms) == <<>>

\* delay(ms): the busy wait, as it shows in the trace
delay(ms) == <<WaitEvent(ms)>>

\* How a piece of executeAsync ends: "return", "throw", or "continue" (the
\* loop goes on), with the trace events it produced.
Return(events, r, idx) ==
    [how |-> "return", events |-> events, result |-> ExecutionData(r, idx), error |-> NoError]

Continue(events) ==
    [how |-> "continue", events |-> events, result |-> NoResult, error |-> NoError]

\* Variant of Throw that swallows the error and lets the loop go on.
ThrowSwallowed(events, err) == Continue(events)

Throw(events, err) ==
    [how |-> "throw", events |-> events, result |-> NoResult, error |-> err]

\* One iteration of the polling loop (while (true) { ... }).  raw1 is what the
\* transport answers to the status GET, raw2 what it answers to the GET of the
\* result endpoint, when the iteration makes one.
LoopBody(key, c, basePath, id, idx, raw1, raw2) ==
    LET statusCall == makeRequest(key, c, "GET", StatusUrl(basePath, id), FALSE, raw1)
        resultCall == makeRequest(key, c, "GET", ResultUrl(basePath, id), FALSE, raw2)
        statusResponse == statusCall.value
        both == statusCall.events \o resultCall.events
    IN IF statusCall.threw
       THEN IF StatusCodeOf(statusCall.error) = 405
            THEN IF ~resultCall.threw
                 THEN IF HasResultFields(resultCall.value)
                      THEN Return(both, resultCall.value, idx)
                      ELSE Continue(both \o delay(pollInterval))
                 ELSE IF StatusCodeOf(resultCall.error) \in {404, 422}
                      THEN Continue(both \o delay(pollInterval))
                      ELSE Throw(both, resultCall.error)
            ELSE Throw(statusCall.events, statusCall.error)
       ELSE IF IsCompleted(statusResponse)
            THEN IF HasResultFields(statusResponse)
                 THEN Return(statusCall.events, statusResponse, idx)
                 ELSE IF ~resultCall.threw
                      THEN Return(both, resultCall.value, idx)
                      ELSE IF StatusCodeOf(resultCall.error) \in {422, 404}
                           THEN Return(both, statusResponse, idx)
                           ELSE Throw(both, resultCall.error)
            ELSE IF IsFailed(statusResponse)
                 THEN Throw(statusCall.events,
                            NodeOperationError(FailedMessage(statusResponse), <<>>))
                 ELSE Continue(statusCall.events \o delay(pollInterval))

\* ------------------------------------------------------------------ state
VARIABLES
    config,          \* getConfig(): supportsAsync, endpoint
    itemIndex,       \* this.itemIndex
    credentials,     \* what the credential store holds for 'falApi'
    apiKey,          \* this.apiKey: Null until resolved
    lookups,         \* calls of executeFunctions.getCredentials so far
    ensures,         \* calls of ensureApiKey so far
    built,           \* calls of buildRequestParams so far
    pc,              \* where the invocation of executeAsync stands
    requestId,       \* submitResponse.request_id
    statusBasePath,  \* getStatusBasePath(config.endpoint)
    trace,           \* the HTTP calls and waits of the invocation, in order
    upstream,        \* what the transport held for the last loop iteration
    result,          \* the value executeAsync returned
    error            \* the error the last call on the adapter threw

falVars == <<config, itemIndex, credentials, apiKey, lookups, ensures, built, pc, requestId,
             statusBasePath, trace, upstream, result, error>>

\* The Pollinations node (Pollinations.execute and Pollinations.executeTool)
\* and its execution context.
VARIABLES
    items,             \* this.getInputData(): the json of each input item
    operation,         \* the node's 'operation' parameter
    continueOnFail,    \* what this.continueOnFail() answers
    toolCall,          \* the node's 'toolCall' parameter
    getNodeParameter,  \* the function installed as this.getNodeParameter
    nodePc,            \* where the call of execute stands
    nodeItemIndex,     \* the loop variable itemIndex of execute
    called,            \* the item indexes the operations were called with, in order
    returnData,        \* the records pushed so far
    output,            \* the items execute resolved with
    nodeError          \* the error execute rejected with

nodeVars == <<items, operation, continueOnFail, toolCall, getNodeParameter, nodePc,
              nodeItemIndex, called, returnData, output, nodeError>>

\* PollinationsOpenResponsesClient.streamResponse and the response it reads.
VARIABLES
    script,       \* the lines the server sends, and whether the last one ends in a newline
    streamPc,     \* where the generator stands
    delivered,    \* how much of the response body reader.read() has handed over
    buffer,       \* the local variable buffer
    yielded,      \* the events yielded so far, in order
    locked,       \* whether the reader holds the lock of the body
    streamError   \* the error the generator threw

streamVars == <<script, streamPc, delivered, buffer, yielded, locked, streamError>>

\* The func of an agent tool (generate_image, generate_video, generate_text).
VARIABLES
    toolName,      \* the name of the tool
    prompt,        \* the prompt the tool is called with
    toolPc,        \* where the call of func stands
    toolResponse,  \* what the HTTP request of the call came to
    toolResult,    \* the JSON text func returned, parsed
    toolError      \* the error func threw

toolVars == <<toolName, prompt, toolPc, toolResponse, toolResult, toolError>>

\* The chat model instances (PollinationsChatModelInstance and
\* PollinationsOpenResponsesModelInstance) and one call of batch.
VARIABLES
    models,       \* the instances: the API each talks to, the instance it was made from, boundTools
    calls,        \* the bindTools, withConfig and invoke calls made, in order
    batchInputs,  \* the inputs batch was called with
    batchPc,      \* where the call of batch stands
    settled,      \* what each invoke of the batch came to, by input position
    completion,   \* the input positions in the order their invokes settled
    batchResult,  \* the list batch resolved with
    batchError    \* the error batch rejected with

chatVars == <<models, calls, batchInputs, batchPc, settled, completion, batchResult, batchError>>

\* A second adapter instance whose executeAsync is in flight at the same time.
VARIABLES
    peer,      \* the fields and locals of the invocation that is suspended at an await
    running,   \* which of the two invocations the adapter variables hold: 1 or 2
    switches   \* how many times the event loop went from one invocation to the other

pairVars == <<peer, running, switches>>

\* everything outside the adapter
elsewhere == <<nodeVars, streamVars, toolVars, chatVars, pairVars>>

\* everything outside the node
outsideNode == <<falVars, streamVars, toolVars, chatVars, pairVars>>

\* everything outside the stream client
outsideStream == <<falVars, nodeVars, toolVars, chatVars, pairVars>>

\* everything outside the agent tools
outsideTools == <<falVars, nodeVars, streamVars, chatVars, pairVars>>

\* everything outside the chat models
outsideChat == <<falVars, nodeVars, streamVars, toolVars, pairVars>>

vars == <<falVars, elsewhere>>

\* no execution of the node has been set up
NodeIdle ==
    /\ items = <<>>
    /\ operation = "imageGeneration"
    /\ continueOnFail = FALSE
    /\ toolCall = Null
    /\ getNodeParameter = "original"
    /\ nodePc = "idle"
    /\ nodeItemIndex = 0
    /\ called = <<>>
    /\ returnData = <<>>
    /\ output = <<>>
    /\ nodeError = NoError

\* no response is being streamed
StreamIdle ==
    /\ script = [lines |-> <<>>, terminated |-> TRUE]
    /\ streamPc = "idle"
    /\ delivered = 0
    /\ buffer = <<>>
    /\ yielded = <<>>
    /\ locked = FALSE
    /\ streamError = NoError

\* the JSON text of a tool that has returned nothing
NoToolResult == [success |-> FALSE, error |-> <<>>, prompt |-> <<>>]

\* no agent tool is being called
ToolIdle ==
    /\ toolName = "generate_image"
    /\ prompt = <<>>
    /\ toolPc = "idle"
    /\ toolResponse = "none"
    /\ toolResult = NoToolResult
    /\ toolError = NoError

\* no chat model has been made
ChatIdle ==
    /\ models = <<>>
    /\ calls = <<>>
    /\ batchInputs = <<>>
    /\ batchPc = "idle"
    /\ settled = <<>>
    /\ completion = <<>>
    /\ batchResult = <<>>
    /\ batchError = NoError

\* there is no second adapter instance
PairIdle ==
    /\ peer = [pc |-> "none"]
    /\ running = 1
    /\ switches = 0

\* nothing but the adapter is in use
ElsewhereIdle == NodeIdle /\ StreamIdle /\ ToolIdle /\ ChatIdle /\ PairIdle

\* ----------------------------------------------------------------- inputs
Endpoints ==
    { <<"/", "fal-ai", "/", "kling-video", "/", "o1", "/", "image-to-video">>,
      <<"/", "fal-ai", "/", "flux", "/", "dev">> }

CredentialStore ==
    { Cred("undefined", {}, Undef),
      Cred("string", {"0"}, Undef),
      Cred("object", {}, Undef),
      Cred("object", {"token"}, Undef),
      Cred("object", {"apiKey"}, EmptyStr),
      Cred("object", {"apiKey"}, Bool(<<"true">>)),
      Cred("object", {"apiKey"}, Str(<<" ">>)),
      Cred("object", {"apiKey"}, Str(<<" ", "sk_1", " ">>)),
      Cred("object", {"apiKey"}, Num(<<"42">>)) }

HttpFailures ==
    { HttpFail(code, Undef, Undef, Str(<<"Request failed with status code ", ToString(code)>>)) :
          code \in {404, 405, 500} }
      \cup { HttpFail(422, Str(<<"Request is still in progress">>), Undef, Undef),
             TransportFail(Str(<<"connect ECONNREFUSED">>)) }

RequestIds == {Undef, Null, EmptyStr, Str(<<"abc123">>)}

SubmitOutcomes ==
    { HttpOk(Body(id, Undef, Undef, Undef, Undef, Undef)) : id \in RequestIds }
      \cup HttpFailures

\* the result fields of a payload: images, video, output
NoFields == <<Undef, Undef, Undef>>
VideoOnly == <<Undef, Obj(<<"url", "https://x/y.mp4">>), Undef>>
TextOnly == <<Undef, Undef, Str(<<"text">>)>>
ResultShapes ==
    { NoFields, VideoOnly,
      <<Obj(<<"[", "https://x/1.png", "]">>), Undef, Undef>>,
      <<Obj(<<"[", "]">>), Undef, Undef>>,
      TextOnly,
      <<Undef, Undef, Num(<<"0">>)>>,
      <<Undef, Null, EmptyStr>> }

StatusBody(status, f, err) == Body(Undef, status, f[1], f[2], f[3], err)

PendingStatuses == {Undef, Str(<<"IN_QUEUE">>), Str(<<"completed">>)}

PendingBodies ==
    { StatusBody(st, NoFields, Undef) : st \in PendingStatuses }
      \cup { StatusBody(Str(<<"IN_QUEUE">>), VideoOnly, Undef) }

UpstreamErrors == {Undef, EmptyStr, Str(<<"quota exceeded">>)}

StatusOutcomes ==
    { HttpOk(b) : b \in PendingBodies }
      \cup { HttpOk(StatusBody(Str(<<"COMPLETED">>), f, Undef)) : f \in ResultShapes }
      \cup { HttpOk(StatusBody(Str(<<"FAILED">>), NoFields, e)) : e \in UpstreamErrors }
      \cup HttpFailures

ResultOutcomes ==
    { HttpOk(StatusBody(Undef, f, Undef)) : f \in {NoFields, VideoOnly, TextOnly} }
      \cup HttpFailures

\* The answers the upstream service holds during one loop iteration, by their
\* HTTP status (0: no response at all): status is its answer to a GET of the
\* status endpoint, result its answer to a GET of the result endpoint.
Upstream(raw1, raw2) == [status |-> raw1.statusCode, result |-> raw2.statusCode]

NoUpstream == [status |-> 0, result |-> 0]

\* the status polls made so far
IsStatusPoll(e) ==
    e.kind = "http" /\ e.method = "GET" /\ e.url = StatusUrl(statusBasePath, requestId.v)

StatusPolls == {i \in 1..Len(trace) : IsStatusPoll(trace[i])}

\* ------------------------------------------------------------------- Init
Init ==
    /\ ElsewhereIdle
    /\ config \in [supportsAsync : BOOLEAN, endpoint : Endpoints]
    /\ itemIndex \in {0, 1}
    /\ credentials \in CredentialStore
    /\ apiKey = Null
    /\ lookups = 0
    /\ ensures = 0
    /\ built = 0
    /\ pc = "ready"
    /\ requestId = Undef
    /\ statusBasePath = <<>>
    /\ trace = <<>>
    /\ upstream = NoUpstream
    /\ result = NoResult
    /\ error = NoError

\* ---------------------------------------------------------------- actions
\* Variant of Begin that resolves the API key before it looks at supportsAsync.
BeginKeyFirst ==
    /\ pc = "ready"
    /\ LET e == ensureApiKey(apiKey, credentials)
       IN /\ apiKey' = e.apiKey
          /\ lookups' = lookups + e.lookups
          /\ ensures' = ensures + 1
          /\ IF e.threw
             THEN pc' = "failed" /\ error' = e.error /\ UNCHANGED built
             ELSE IF ~config.supportsAsync
             THEN /\ pc' = "failed"
                  /\ error' = NodeOperationError(<<"Model does not support asynchronous requests">>, <<>>)
                  /\ UNCHANGED built
             ELSE pc' = "submit" /\ error' = e.error /\ built' = built + 1
    /\ UNCHANGED <<elsewhere, config, itemIndex, credentials, requestId, statusBasePath, trace, upstream, result>>

\* executeAsync, lines 272-285: the supportsAsync check, ensureApiKey and
\* buildRequestParams.
Begin ==
    /\ pc = "ready"
    /\ LET e == ensureApiKey(apiKey, credentials)
       IN IF ~config.supportsAsync
          THEN /\ pc' = "failed"
               /\ error' = NodeOperationError(<<"Model does not support asynchronous requests">>, <<>>)
               /\ UNCHANGED <<apiKey, lookups, ensures, built>>
          ELSE /\ pc' = IF e.threw THEN "failed" ELSE "submit"
               /\ error' = e.error
               /\ apiKey' = e.apiKey
               /\ lookups' = lookups + e.lookups
               /\ ensures' = ensures + 1
               /\ built' = IF e.threw THEN built ELSE built + 1
    /\ UNCHANGED <<elsewhere, config, itemIndex, credentials, requestId, statusBasePath, trace, upstream, result>>

\* executeAsync, lines 286-299: the submission POST, the request_id check and
\* getStatusBasePath.
Submit ==
    /\ pc = "submit"
    /\ \E raw \in SubmitOutcomes :
         LET call == makeRequest(apiKey, credentials, "POST", AsyncUrl(config.endpoint), TRUE, raw)
             id == call.value.request_id
         IN /\ trace' = trace \o call.events
            /\ apiKey' = call.apiKey
            /\ lookups' = lookups + call.lookups
            /\ ensures' = ensures + 1
            /\ IF call.threw
               THEN /\ pc' = "failed"
                    /\ error' = call.error
                    /\ UNCHANGED <<requestId, statusBasePath>>
               ELSE IF ~Truthy(id)
               THEN /\ pc' = "failed"
                    /\ error' = NodeOperationError(<<"Failed to get request_id from async submission">>, <<>>)
                    /\ requestId' = id
                    /\ UNCHANGED statusBasePath
               ELSE /\ pc' = "poll"
                    /\ requestId' = id
                    /\ statusBasePath' = getStatusBasePath(config.endpoint)
                    /\ UNCHANGED error
    /\ UNCHANGED <<elsewhere, config, itemIndex, credentials, built, upstream, result>>

\* executeAsync, lines 304-409: one iteration of the polling loop.  Every
\* makeRequest of the iteration calls ensureApiKey once and, the key being
\* resolved, issues one HTTP call.
PollIteration ==
    /\ pc = "poll"
    /\ Cardinality(StatusPolls) < MaxPolls
    /\ \E raw1 \in StatusOutcomes, raw2 \in ResultOutcomes :
         LET r == LoopBody(apiKey, credentials, statusBasePath, requestId.v, itemIndex, raw1, raw2)
         IN /\ upstream' = Upstream(raw1, raw2)
            /\ trace' = trace \o r.events
            /\ pc' = CASE r.how = "return" -> "done"
                       [] r.how = "throw" -> "failed"
                       [] OTHER -> "poll"
            /\ result' = r.result
            /\ error' = r.error
            /\ ensures' = ensures + Len(SelectSeq(r.events, LAMBDA ev : ev.kind = "http"))
    /\ UNCHANGED <<elsewhere, config, itemIndex, credentials, apiKey, lookups, built, requestId, statusBasePath>>

\* Variant of Poll that gives up with a timeout error after two status polls.
PollTimeout ==
    IF Cardinality(StatusPolls) >= 2
    THEN /\ pc = "poll"
         /\ pc' = "failed"
         /\ error' = NodeOperationError(<<"Async request timed out">>, <<>>)
         /\ UNCHANGED <<elsewhere, config, itemIndex, credentials, apiKey, lookups, ensures, built,
                        requestId, statusBasePath, trace, upstream, result>>
    ELSE PollIteration

\* Variant of Poll whose loop spins without polling.
PollSpinning == pc = "poll" /\ UNCHANGED vars

Poll == PollIteration

\* One iteration of the polling loop against an upstream that answers the
\* status poll with COMPLETED or FAILED at the latest on poll number MaxPolls.
PollFinishing ==
    /\ Poll
    /\ Cardinality(StatusPolls) + 1 >= MaxPolls
         => LET e == trace'[Len(trace) + 1]
            IN e.ok /\ e.body.status \in {Str(<<"COMPLETED">>), Str(<<"FAILED">>)}

Next == Begin \/ Submit \/ Poll

Spec == Init /\ [][Next]_vars

\* executeAsync against an upstream that finishes the job: every await
\* resumes (each HTTP call returns, each busy wait ends), so a step that can
\* be taken is taken.
LiveNext == Begin \/ Submit \/ PollFinishing

LiveSpec == Init /\ [][LiveNext]_vars /\ WF_vars(LiveNext)

\* The path segments endpoints are built from. A segment that continues a
\* family name is two tokens, so that the family name is a prefix of it.
Segments ==
    { <<"fal-ai">>, <<"kling-video">>, <<"wan">>, <<"v2.6">>, <<"z-image">>,
      <<"nano-banana-pro">>, <<"bytedance">>, <<"kling-video", "-pro">>, <<"x">> }

\* segs joined into a path, each segment after a slash
RECURSIVE JoinPath(_)
JoinPath(segs) ==
    IF segs = <<>> THEN <<>> ELSE <<"/">> \o Head(segs) \o JoinPath(Tail(segs))

\* The endpoint strings given to getStatusBasePath: paths of up to MaxSegments
\* segments, with or without the leading and the trailing slash.
PathEndpoints ==
    LET paths == {JoinPath(segs) : segs \in UNION {[1..k -> Segments] : k \in 0..MaxSegments}}
    IN UNION { {p \o t, (IF p = <<>> THEN p ELSE Tail(p)) \o t} :
                   p \in paths, t \in {<<>>, <<"/">>} }

\* An adapter whose configured endpoint is any of PathEndpoints.
PathInit ==
    /\ ElsewhereIdle
    /\ config \in [supportsAsync : {TRUE}, endpoint : PathEndpoints]
    /\ itemIndex = 0
    /\ credentials = Cred("object", {"apiKey"}, Num(<<"42">>))
    /\ apiKey = Null
    /\ lookups = 0
    /\ ensures = 0
    /\ built = 0
    /\ pc = "ready"
    /\ requestId = Undef
    /\ statusBasePath = <<>>
    /\ trace = <<>>
    /\ upstream = NoUpstream
    /\ result = NoResult
    /\ error = NoError

\* getStatusBasePath(this.config.endpoint), on its own
CallGetStatusBasePath ==
    /\ pc = "ready"
    /\ statusBasePath' = getStatusBasePath(config.endpoint)
    /\ pc' = "derived"
    /\ UNCHANGED <<elsewhere, config, itemIndex, credentials, apiKey, lookups, ensures, built,
                   requestId, trace, upstream, result, error>>

PathNext == CallGetStatusBasePath

PathSpec == PathInit /\ [][PathNext]_vars

\* What the transport answers to a request made through makeRequest directly.
DirectOutcomes == {HttpOk(EmptyBody)} \cup HttpFailures

\* The caller calls ensureApiKey on the adapter, before executeAsync or after
\* it failed, and awaits it.
CallEnsureApiKey ==
    /\ pc \in {"ready", "failed"}
    /\ ensures < MaxCalls
    /\ LET e == ensureApiKey(apiKey, credentials)
       IN /\ apiKey' = e.apiKey
          /\ lookups' = lookups + e.lookups
          /\ error' = e.error
    /\ ensures' = ensures + 1
    /\ UNCHANGED <<elsewhere, config, itemIndex, credentials, built, pc, requestId, statusBasePath,
                   trace, upstream, result>>

\* The caller calls the public makeRequest on the adapter, before executeAsync
\* or after it failed, and awaits it.
CallMakeRequest ==
    /\ pc \in {"ready", "failed"}
    /\ ensures < MaxCalls
    /\ \E raw \in DirectOutcomes :
         LET call == makeRequest(apiKey, credentials, "GET", AsyncUrl(config.endpoint), FALSE, raw)
         IN /\ apiKey' = call.apiKey
            /\ lookups' = lookups + call.lookups
            /\ error' = call.error
            /\ trace' = trace \o call.events
    /\ ensures' = ensures + 1
    /\ UNCHANGED <<elsewhere, config, itemIndex, credentials, built, pc, requestId, statusBasePath,
                   upstream, result>>

\* The calls on one adapter instance that resolve the API key: ensureApiKey,
\* makeRequest, and executeAsync up to its submission.
KeyNext == CallEnsureApiKey \/ CallMakeRequest \/ Begin \/ Submit

KeySpec == Init /\ [][KeyNext]_vars

\* ------------------------------------------- two adapters at the same time
\* Two adapter instances whose executeAsync run on one event loop: one
\* invocation runs from an await to the next while the other is suspended, and
\* at an await the event loop may resume the other.  The adapter variables hold
\* the invocation that runs, peer the one that is suspended.

\* the fields (this.apiKey, this.itemIndex, ...) and the locals of the
\* invocation that runs
Invocation ==
    [config |-> config, itemIndex |-> itemIndex, credentials |-> credentials,
     apiKey |-> apiKey, lookups |-> lookups, ensures |-> ensures, built |-> built,
     pc |-> pc, requestId |-> requestId, statusBasePath |-> statusBasePath,
     trace |-> trace, upstream |-> upstream, result |-> result, error |-> error]

\* an adapter that is constructed and not used
NewAdapter(cfg, idx, c) ==
    [config |-> cfg, itemIndex |-> idx, credentials |-> c,
     apiKey |-> Null, lookups |-> 0, ensures |-> 0, built |-> 0,
     pc |-> "ready", requestId |-> Undef, statusBasePath |-> <<>>,
     trace |-> <<>>, upstream |-> NoUpstream, result |-> NoResult, error |-> NoError]

\* Variant of ThisApiKey for a key kept in one place for the whole class: the
\* invocation that resumes finds the key the other one left.
ClassApiKey(own, last) == last

\* this.apiKey is a field of the instance (line 100): the invocation that
\* resumes finds the key it had when it was suspended, whatever the other
\* invocation stored meanwhile.
ThisApiKey(own, last) == own

\* the credentials the two adapters are given
PairCredentials ==
    { Cred("object", {"apiKey"}, Num(<<"42">>)),
      Cred("object", {"apiKey"}, Str(<<" ", "sk_1", " ">>)),
      Cred("undefined", {}, Undef) }

PairInit ==
    /\ NodeIdle
    /\ StreamIdle
    /\ ToolIdle
    /\ ChatIdle
    /\ running = 1
    /\ switches = 0
    /\ config = [supportsAsync |-> TRUE,
                 endpoint |-> <<"/", "fal-ai", "/", "kling-video", "/", "o1", "/", "image-to-video">>]
    /\ itemIndex = 0
    /\ credentials = Cred("object", {"apiKey"}, Str(<<" ", "sk_1", " ">>))
    /\ apiKey = Null
    /\ lookups = 0
    /\ ensures = 0
    /\ built = 0
    /\ pc = "ready"
    /\ requestId = Undef
    /\ statusBasePath = <<>>
    /\ trace = <<>>
    /\ upstream = NoUpstream
    /\ result = NoResult
    /\ error = NoError
    /\ \E c \in PairCredentials :
         peer = NewAdapter([supportsAsync |-> TRUE,
                            endpoint |-> <<"/", "fal-ai", "/", "flux", "/", "dev">>], 1, c)

\* The running invocation is at an await (or has ended) and the event loop
\* resumes the other one.
Switch ==
    /\ peer.pc \notin {"none", "done", "failed"}
    /\ pc \in {"done", "failed"} \/ switches < MaxSwitches
    /\ switches' = IF pc \in {"done", "failed"} THEN switches ELSE switches + 1
    /\ running' = 3 - running
    /\ peer' = Invocation
    /\ apiKey' = ThisApiKey(peer.apiKey, apiKey)
    /\ config' = peer.config
    /\ itemIndex' = peer.itemIndex
    /\ credentials' = peer.credentials
    /\ lookups' = peer.lookups
    /\ ensures' = peer.ensures
    /\ built' = peer.built
    /\ pc' = peer.pc
    /\ requestId' = peer.requestId
    /\ statusBasePath' = peer.statusBasePath
    /\ trace' = peer.trace
    /\ upstream' = peer.upstream
    /\ result' = peer.result
    /\ error' = peer.error
    /\ UNCHANGED <<nodeVars, streamVars, toolVars, chatVars>>

\* What the upstream answers while two invocations are followed: a submission
\* accepted with or without a request id, a job queued, completed with or
\* without its result inline, or failed, and an HTTP 500.
PairBodies ==
    { Body(Str(<<"abc123">>), Undef, Undef, Undef, Undef, Undef),
      EmptyBody,
      StatusBody(Str(<<"IN_QUEUE">>), NoFields, Undef),
      StatusBody(Str(<<"COMPLETED">>), VideoOnly, Undef),
      StatusBody(Str(<<"COMPLETED">>), NoFields, Undef),
      StatusBody(Str(<<"FAILED">>), NoFields, Str(<<"quota exceeded">>)),
      StatusBody(Undef, VideoOnly, Undef) }

\* the HTTP calls the step appends to the trace were answered that way
PairAnswers ==
    \A k \in Len(trace) + 1 .. Len(trace') :
        trace'[k].kind = "http" =>
            IF trace'[k].ok THEN trace'[k].body \in PairBodies ELSE trace'[k].code = 500

\* the submission of the invocation that runs
PairSubmit == Submit /\ PairAnswers

\* one iteration of the polling loop of the invocation that runs
PairPoll ==
    /\ Cardinality(StatusPolls) < MaxPairPolls
    /\ Poll
    /\ PairAnswers

PairNext == Begin \/ PairSubmit \/ PairPoll \/ Switch

PairSpec == PairInit /\ [][PairNext]_vars

\* ------------------------------------------------------ the Pollinations node
\* An adapter that is constructed and not used.
FalIdle ==
    /\ config = [supportsAsync |-> TRUE, endpoint |-> <<"/", "fal-ai", "/", "flux", "/", "dev">>]
    /\ itemIndex = 0
    /\ credentials = Cred("object", {"apiKey"}, Num(<<"42">>))
    /\ apiKey = Null
    /\ lookups = 0
    /\ ensures = 0
    /\ built = 0
    /\ pc = "ready"
    /\ requestId = Undef
    /\ statusBasePath = <<>>
    /\ trace = <<>>
    /\ upstream = NoUpstream
    /\ result = NoResult
    /\ error = NoError

\* an error of the JavaScript runtime or of the n8n library
RuntimeError(message) ==
    [message |-> message, description |-> <<>>, hasResponse |-> FALSE, statusCode |-> 0]

\* an INodeExecutionData: json, error (NoError when absent) and pairedItem.item
ItemRecord(json, err, item) == [json |-> json, error |-> err, pairedItem |-> item]

\* the operations the switch of execute knows
KnownOperations == {"imageGeneration", "videoGeneration", "textGeneration", "audioGeneration"}

\* execute<Operation>.call(this, itemIndex): the operation makes its HTTP
\* request and returns one record paired with itemIndex, or throws; an
\* operation the switch does not know throws at once.
RunOperation(op, idx, ok) ==
    IF op \notin KnownOperations
    THEN [threw |-> TRUE, value |-> ItemRecord("", NoError, idx),
          error |-> NodeOperationError(<<"Unknown operation: ", op>>, <<>>)]
    ELSE IF ok
    THEN [threw |-> FALSE, value |-> ItemRecord(op, NoError, idx), error |-> NoError]
    ELSE [threw |-> TRUE, value |-> ItemRecord("", NoError, idx),
          error |-> NodeOperationError(<<"Failed to generate: ", "Request failed">>, <<>>)]

\* What this.getInputData(inputIndex) of the execution context does for an
\* input index other than 0 on this node, which has the one main input: it
\* throws, or returns undefined, or returns an empty list.
InputDataOutcomes == {"throws", "undefined", "empty"}

\* this.getInputData(itemIndex)[0].json, the json of the error record: the
\* argument of getInputData is the index of an input connector.
ErrorRecordJson(idx, how) ==
    IF idx = 0
    THEN [threw |-> FALSE, json |-> items[1], error |-> NoError]
    ELSE [threw |-> TRUE, json |-> "",
          error |-> CASE how = "throws" ->
                           RuntimeError(<<"Could not get input with given index">>)
                      [] how = "undefined" ->
                           RuntimeError(<<"Cannot read properties of undefined (reading '0')">>)
                      [] OTHER ->
                           RuntimeError(<<"Cannot read properties of undefined (reading 'json')">>)]

\* the value of the 'toolCall' parameter when reading it throws
ParameterError == [t |-> "error", v |-> <<>>]

\* a tool call of an AI agent: { name, arguments }
ToolCall(name) == Obj(<<name>>)

\* the tool names the switch of executeTool knows
KnownTools == {"generate_image", "generate_video", "generate_text", "generate_audio"}

\* the operation a tool runs
ToolOperation(name) ==
    CASE name = "generate_image" -> "imageGeneration"
      [] name = "generate_video" -> "videoGeneration"
      [] name = "generate_text" -> "textGeneration"
      [] OTHER -> "audioGeneration"

\* Pollinations.executeTool(toolCall), lines 423-540: for a known tool it
\* installs the per-tool getNodeParameter, runs the operation on item 0 and
\* puts the original function back after the operation returned; every error
\* is rethrown as 'Tool execution failed: ...'.  installed is the function
\* found installed; ok tells whether the operation's request succeeds.
executeTool(name, installed, ok) ==
    IF name \notin KnownTools
    THEN [threw |-> TRUE, value |-> <<>>, calls |-> <<>>, getNodeParameter |-> installed,
          error |-> NodeOperationError(
                        <<"Tool execution failed: ">> \o <<"Tool ", name, " is not supported">>, <<>>)]
    ELSE LET r == RunOperation(ToolOperation(name), 0, ok)
         IN IF r.threw
            THEN [threw |-> TRUE, value |-> <<>>, calls |-> <<[via |-> "tool", item |-> 0]>>,
                  getNodeParameter |-> "override",
                  error |-> NodeOperationError(<<"Tool execution failed: ">> \o r.error.message, <<>>)]
            ELSE [threw |-> FALSE, value |-> <<r.value>>, calls |-> <<[via |-> "tool", item |-> 0]>>,
                  getNodeParameter |-> installed, error |-> NoError]

\* Variant of ReturnedPromiseCaught: the rejection is caught, as with
\* 'return await'.
ReturnedPromiseAwaited == TRUE

\* Whether the try block of execute (lines 369-376) catches the rejection of
\* the promise it returns: 'return executeTool.call(...)' returns the promise
\* without awaiting it, so the rejection passes the catch block by.
ReturnedPromiseCaught == FALSE

\* The inputs of an execution of the node.
ItemLists == UNION {[1..n -> {"a", "b"}] : n \in 0..MaxItems}

Operations == {"imageGeneration", "textGeneration", "translate"}

ToolCalls ==
    {Null, ParameterError, ToolCall("generate_image"), ToolCall("generate_audio"),
     ToolCall("generate_music")}

\* An execution of the node is about to start.
NodeInit ==
    /\ FalIdle
    /\ PairIdle
    /\ StreamIdle
    /\ ToolIdle
    /\ ChatIdle
    /\ items \in ItemLists
    /\ operation \in Operations
    /\ continueOnFail \in BOOLEAN
    /\ toolCall \in ToolCalls
    /\ getNodeParameter = "original"
    /\ nodePc = "start"
    /\ nodeItemIndex = 0
    /\ called = <<>>
    /\ returnData = <<>>
    /\ output = <<>>
    /\ nodeError = NoError

\* execute, lines 365-381: the tool-call check, and with it the whole of
\* executeTool; otherwise the start of the loop over the items (the return of
\* line 421 when there is no item).
Execute ==
    /\ nodePc = "start"
    /\ \E ok \in BOOLEAN :
         LET isTool == toolCall # ParameterError /\ Truthy(toolCall)
             t == executeTool(toolCall.v[1], getNodeParameter, ok)
         IN IF isTool /\ ~(t.threw /\ ReturnedPromiseCaught)
            THEN /\ nodePc' = IF t.threw THEN "thrown" ELSE "returned"
                 /\ output' = t.value
                 /\ nodeError' = t.error
                 /\ called' = called \o t.calls
                 /\ getNodeParameter' = t.getNodeParameter
            ELSE /\ nodePc' = IF items = <<>> THEN "returned" ELSE "loop"
                 /\ called' = IF isTool THEN called \o t.calls ELSE called
                 /\ getNodeParameter' = IF isTool THEN t.getNodeParameter ELSE getNodeParameter
                 /\ UNCHANGED <<output, nodeError>>
    /\ UNCHANGED outsideNode
    /\ UNCHANGED <<items, operation, continueOnFail, toolCall, nodeItemIndex, returnData>>

\* execute, lines 383-418: one iteration of the loop over the items, and the
\* return of line 421 after the last one.
ProcessItem ==
    /\ nodePc = "loop"
    /\ nodeItemIndex < Len(items)
    /\ \E ok \in BOOLEAN, how \in InputDataOutcomes :
         LET r == RunOperation(operation, nodeItemIndex, ok)
             j == ErrorRecordJson(nodeItemIndex, how)
             pushed == IF ~r.threw
                       THEN Append(returnData, r.value)
                       ELSE Append(returnData, ItemRecord(j.json, r.error, nodeItemIndex))
             thrown == r.threw /\ (~continueOnFail \/ j.threw)
         IN /\ called' = IF operation \in KnownOperations
                         THEN Append(called, [via |-> "loop", item |-> nodeItemIndex])
                         ELSE called
            /\ IF thrown
               THEN /\ nodePc' = "thrown"
                    /\ nodeError' = IF continueOnFail THEN j.error ELSE r.error
                    /\ UNCHANGED <<nodeItemIndex, returnData, output>>
               ELSE /\ returnData' = pushed
                    /\ nodeItemIndex' = nodeItemIndex + 1
                    /\ nodePc' = IF nodeItemIndex + 1 < Len(items) THEN "loop" ELSE "returned"
                    /\ output' = IF nodeItemIndex + 1 < Len(items) THEN output ELSE pushed
                    /\ UNCHANGED nodeError
    /\ UNCHANGED outsideNode
    /\ UNCHANGED <<items, operation, continueOnFail, toolCall, getNodeParameter>>

NodeNext == Execute \/ ProcessItem

NodeSpec == NodeInit /\ [][NodeNext]_vars

\* -------------------------------------------------------- streamResponse
\* new ApplicationError(message)
ApplicationError(message) ==
    [message |-> message, description |-> <<>>, hasResponse |-> FALSE, statusCode |-> 0]

\* the index of the first newline of text, 0 when there is none
FirstNewline(text) ==
    IF \E i \in 1..Len(text) : text[i] = "\n"
    THEN CHOOSE i \in 1..Len(text) : text[i] = "\n" /\ \A j \in 1..(i - 1) : text[j] # "\n"
    ELSE 0

\* text.split('\n')
RECURSIVE SplitLines(_)
SplitLines(text) ==
    LET i == FirstNewline(text)
    IN IF i = 0
       THEN <<text>>
       ELSE <<SubSeq(text, 1, i - 1)>> \o SplitLines(SubSeq(text, i + 1, Len(text)))

\* JSON.parse(data): the texts that are JSON here are the objects {a} and {b}
JsonParse(data) ==
    IF Len(data) = 3 /\ data[1] = "{" /\ data[2] \in {"a", "b"} /\ data[3] = "}"
    THEN [threw |-> FALSE, value |-> data[2]]
    ELSE [threw |-> TRUE, value |-> ""]

\* The for loop over the complete lines, lines 85-96: the events it yields,
\* and whether it returned on [DONE].
RECURSIVE ProcessLines(_)
ProcessLines(lines) ==
    IF lines = <<>>
    THEN [events |-> <<>>, done |-> FALSE]
    ELSE LET line == Head(lines)
             rest == ProcessLines(Tail(lines))
             data == Trim(SubSeq(line, 3, Len(line)))
         IN IF ~StartsWith(line, <<"data:", " ">>)
            THEN rest
            ELSE IF data = <<"[DONE", "]">>
            THEN [events |-> <<>>, done |-> TRUE]
            ELSE IF data = <<>> \/ JsonParse(data).threw
            THEN rest
            ELSE [events |-> <<JsonParse(data).value>> \o rest.events, done |-> rest.done]

\* the text split into its complete lines and the rest kept in the buffer
ParseText(text) ==
    LET lines == SplitLines(text)
        p == ProcessLines(SubSeq(lines, 1, Len(lines) - 1))
    IN [buffer |-> lines[Len(lines)], events |-> p.events, done |-> p.done]

\* Variant of Feed that starts every chunk with an empty buffer.
FeedNoBuffer(buf, chunk) == ParseText(chunk)

\* Lines 81-96: the chunk is appended to the buffer, the complete lines are
\* processed and the incomplete last line stays in the buffer.
Feed(buf, chunk) == ParseText(buf \o chunk)

\* The lines a server sends: two events, an event line ending in a carriage
\* return, a data line that is not JSON, an empty data line, the end marker
\* and the blank line that separates events.
LineKinds == {"a", "b", "a-cr", "invalid", "empty", "done", "blank"}

LineText(kind) ==
    CASE kind = "a" -> <<"data:", " ", "{", "a", "}">>
      [] kind = "b" -> <<"data:", " ", "{", "b", "}">>
      [] kind = "a-cr" -> <<"data:", " ", "{", "a", "}", "\r">>
      [] kind = "invalid" -> <<"data:", " ", "{", "a">>
      [] kind = "empty" -> <<"data:", " ">>
      [] kind = "done" -> <<"data:", " ", "[DONE", "]">>
      [] OTHER -> <<>>

Scripts ==
    {[lines |-> l, terminated |-> t] :
         l \in UNION {[1..n -> LineKinds] : n \in 1..MaxLines}, t \in BOOLEAN}
      \cup {[lines |-> <<>>, terminated |-> TRUE]}

\* the text of the response body
RECURSIVE BodyText(_)
BodyText(sc) ==
    IF sc.lines = <<>>
    THEN <<>>
    ELSE LineText(Head(sc.lines))
           \o (IF Len(sc.lines) > 1 \/ sc.terminated THEN <<"\n">> ELSE <<>>)
           \o BodyText([lines |-> Tail(sc.lines), terminated |-> sc.terminated])

\* A call of streamResponse is about to start.
StreamInit ==
    /\ FalIdle
    /\ PairIdle
    /\ NodeIdle
    /\ ToolIdle
    /\ ChatIdle
    /\ script \in Scripts
    /\ streamPc = "start"
    /\ delivered = 0
    /\ buffer = <<>>
    /\ yielded = <<>>
    /\ locked = FALSE
    /\ streamError = NoError

\* streamResponse, lines 48-72: the fetch, the check of response.ok and
\* getReader.
Fetch ==
    /\ streamPc = "start"
    /\ \E how \in {"ok", "status", "no body"} :
         /\ streamPc' = IF how = "ok" THEN "reading" ELSE "thrown"
         /\ locked' = (how = "ok")
         /\ streamError' =
              CASE how = "status" ->
                       ApplicationError(<<"Open Responses API streaming error: ", "500", " - ">>)
                [] how = "no body" -> ApplicationError(<<"No response body for streaming">>)
                [] OTHER -> NoError
    /\ UNCHANGED outsideStream
    /\ UNCHANGED <<script, delivered, buffer, yielded>>

\* streamResponse, lines 76-100: one pass of the while loop.  reader.read()
\* hands over the next n pieces of the body (any number of them), or reports
\* the end of the body, or rejects; the finally block releases the lock on
\* every way out of the loop.
Read ==
    /\ streamPc = "reading"
    /\ LET text == BodyText(script)
           left == Len(text) - delivered
       IN \E n \in -1..left :
            /\ n = 0 => left = 0
            /\ IF n = -1
               THEN /\ streamPc' = "thrown"
                    /\ streamError' = RuntimeError(<<"terminated">>)
                    /\ locked' = FALSE
                    /\ UNCHANGED <<delivered, buffer, yielded>>
               ELSE IF n = 0
               THEN /\ streamPc' = "ended"
                    /\ locked' = FALSE
                    /\ UNCHANGED <<delivered, buffer, yielded, streamError>>
               ELSE LET f == Feed(buffer, SubSeq(text, delivered + 1, delivered + n))
                    IN /\ delivered' = delivered + n
                       /\ buffer' = f.buffer
                       /\ yielded' = yielded \o f.events
                       /\ streamPc' = IF f.done THEN "ended" ELSE "reading"
                       /\ locked' = ~f.done
                       /\ UNCHANGED streamError
    /\ UNCHANGED <<outsideStream, script>>

StreamNext == Fetch \/ Read

StreamSpec == StreamInit /\ [][StreamNext]_vars

\* ------------------------------------------------------- the agent tools
\* a code unit that is half of a surrogate pair with the other half missing
LoneSurrogate == "\\uD800"

\* new URIError('URI malformed')
URIError == RuntimeError(<<"URI malformed">>)

\* encodeURIComponent(text): a space becomes %20 and the other pieces of text
\* modelled stay as they are; a lone surrogate makes it throw a URIError.
encodeURIComponent(text) ==
    IF \E i \in 1..Len(text) : text[i] = LoneSurrogate
    THEN [threw |-> TRUE, value |-> <<>>, error |-> URIError]
    ELSE [threw |-> FALSE, error |-> NoError,
          value |-> [i \in 1..Len(text) |-> IF text[i] = " " THEN "%20" ELSE text[i]]]

\* What the HTTP request of a tool comes to: fetch rejects; the response is
\* not ok; the response is ok and reading its body fails; the response is ok
\* and its body is read ("ok null": the body read is the JSON text null).
ToolResponses == {"network", "status", "ok unread", "ok", "ok null"}

\* JSON.stringify({success: false, error, prompt}) of the catch block
ToolFailure(message, p) == [success |-> FALSE, error |-> message, prompt |-> p]

\* JSON.stringify({success: true, ..., prompt})
ToolSuccess(p) == [success |-> TRUE, error |-> <<>>, prompt |-> p]

\* The try block of func, with its catch block: fetch, the check of
\* response.ok, the reading of the body and the JSON text returned.  The text
\* tool reads result.choices of the parsed body, which throws on null.
ToolRequest(name, p, resp) ==
    CASE resp = "network" -> ToolFailure(<<"fetch failed">>, p)
      [] resp = "status" -> ToolFailure(<<"HTTP error! status: ", "500">>, p)
      [] resp = "ok unread" -> ToolFailure(<<"terminated">>, p)
      [] resp = "ok null" /\ name = "generate_text" ->
             ToolFailure(<<"Cannot read properties of null (reading 'choices')">>, p)
      [] OTHER -> ToolSuccess(p)

\* func of the tool called name: the image and the video tool build the URL
\* with encodeURIComponent(prompt) before the try block, the text tool puts
\* the prompt into the request body inside it.
func(name, p, resp) ==
    LET enc == encodeURIComponent(p)
    IN IF name \in {"generate_image", "generate_video"} /\ enc.threw
       THEN [threw |-> TRUE, value |-> NoToolResult, error |-> enc.error, response |-> "none"]
       ELSE [threw |-> FALSE, value |-> ToolRequest(name, p, resp), error |-> NoError,
             response |-> resp]

ToolNames == {"generate_image", "generate_video", "generate_text"}

Prompts == {<<>>, <<" ">>, <<"cat">>, <<"dog">>, <<"a", " ", "cat">>, <<"a", " ", "dog">>,
            <<"cat", LoneSurrogate>>, <<LoneSurrogate>>, <<"a", " ", LoneSurrogate>>}

\* A tool is about to be called.
ToolInit ==
    /\ FalIdle
    /\ PairIdle
    /\ NodeIdle
    /\ StreamIdle
    /\ ChatIdle
    /\ toolName \in ToolNames
    /\ prompt \in Prompts
    /\ toolPc = "ready"
    /\ toolResponse = "none"
    /\ toolResult = NoToolResult
    /\ toolError = NoError

\* The agent calls func and awaits it.
CallFunc ==
    /\ toolPc = "ready"
    /\ \E resp \in ToolResponses :
         LET f == func(toolName, prompt, resp)
         IN /\ toolPc' = IF f.threw THEN "thrown" ELSE "returned"
            /\ toolResponse' = f.response
            /\ toolResult' = f.value
            /\ toolError' = f.error
    /\ UNCHANGED <<outsideTools, toolName, prompt>>

ToolNext == CallFunc

ToolSpec == ToolInit /\ [][ToolNext]_vars

\* -------------------------------------------------------- the chat models
\* new PollinationsChatModelInstance({...}) / new
\* PollinationsOpenResponsesModelInstance({...}): the constructor sets the
\* model's fields and no boundTools (the empty list stands for none).
NewModel(api, parent) == [api |-> api, parent |-> parent, boundTools |-> <<>>]

\* no request
NoRequest == [input |-> "", tools |-> <<>>, tool_choice |-> "", parallel_tool_calls |-> FALSE]

\* The request body built by _callAPI (chat completions) and by invoke (Open
\* Responses) for an input: the bound tools go with it, with tool_choice
\* 'auto', when the list bound on this instance is not empty.
Request(m, input) ==
    IF m.boundTools # <<>>
    THEN [input |-> input, tools |-> m.boundTools, tool_choice |-> "auto",
          parallel_tool_calls |-> (m.api = "chat")]
    ELSE [input |-> input, tools |-> <<>>, tool_choice |-> "", parallel_tool_calls |-> FALSE]

\* an entry of the list of calls
Call(op, on, tools, made, request) ==
    [op |-> op, on |-> on, tools |-> tools, made |-> made, request |-> request]

\* the tool lists given to bindTools
ToolLists == {<<>>, <<"search">>, <<"search", "calc">>}

\* A chat model has been made by the node and nothing has been called on it.
BindInit ==
    /\ FalIdle
    /\ PairIdle
    /\ NodeIdle
    /\ StreamIdle
    /\ ToolIdle
    /\ models \in {<<NewModel(api, 0)>> : api \in {"chat", "responses"}}
    /\ calls = <<>>
    /\ batchInputs = <<>>
    /\ batchPc = "idle"
    /\ settled = <<>>
    /\ completion = <<>>
    /\ batchResult = <<>>
    /\ batchError = NoError

\* bindTools(tools) on instance i: the list is stored on that instance.
BindTools ==
    /\ Len(calls) < MaxChatCalls
    /\ \E i \in 1..Len(models), t \in ToolLists :
         /\ models' = [models EXCEPT ![i].boundTools = t]
         /\ calls' = Append(calls, Call("bindTools", i, t, 0, NoRequest))
    /\ UNCHANGED <<outsideChat, batchInputs, batchPc, settled, completion, batchResult, batchError>>

\* withConfig(config) on instance i: a new instance is constructed from the
\* fields of i and returned.
WithConfig ==
    /\ Len(calls) < MaxChatCalls
    /\ \E i \in 1..Len(models) :
         /\ models' = Append(models, NewModel(models[i].api, i))
         /\ calls' = Append(calls, Call("withConfig", i, <<>>, Len(models) + 1, NoRequest))
    /\ UNCHANGED <<outsideChat, batchInputs, batchPc, settled, completion, batchResult, batchError>>

\* invoke(input) on instance i: the request it sends.
Invoke ==
    /\ Len(calls) < MaxChatCalls
    /\ \E i \in 1..Len(models) :
         calls' = Append(calls, Call("invoke", i, <<>>, 0, Request(models[i], "hi")))
    /\ UNCHANGED <<outsideChat, models, batchInputs, batchPc, settled, completion, batchResult,
                   batchError>>

BindNext == BindTools \/ WithConfig \/ Invoke

BindSpec == BindInit /\ [][BindNext]_vars

\* new AIMessage(content, tool_calls) made from the API's answer to a request
\* with this input
AIMessage(input) == [content |-> <<"re: ", input>>, tool_calls |-> <<>>]

\* Variant of PromiseAll that lists the values in the order they settled.
PromiseAllAsSettled(values, order) == [k \in 1..Len(order) |-> values[order[k]]]

\* What Promise.all resolves with once every promise is fulfilled: the values
\* in the order of the promises given, whatever order they settled in.
PromiseAll(values, order) == values

BatchInputs == UNION {[1..n -> {"x", "y"}] : n \in 0..MaxBatch}

\* batch is about to be called on a chat model.
BatchInit ==
    /\ FalIdle
    /\ PairIdle
    /\ NodeIdle
    /\ StreamIdle
    /\ ToolIdle
    /\ models \in {<<[NewModel(api, 0) EXCEPT !.boundTools = t]>> :
                       api \in {"chat", "responses"}, t \in {<<>>, <<"search">>}}
    /\ calls = <<>>
    /\ batchInputs \in BatchInputs
    /\ batchPc = "ready"
    /\ settled = <<>>
    /\ completion = <<>>
    /\ batchResult = <<>>
    /\ batchError = NoError

\* batch(inputs): inputs.map(input => this.invoke(input)) starts one invoke
\* per input, each sending its request, and Promise.all waits for them; with
\* no input it resolves at once with the empty list.
Batch ==
    /\ batchPc = "ready"
    /\ calls' = calls \o [i \in 1..Len(batchInputs) |->
                             Call("invoke", 1, <<>>, 0, Request(models[1], batchInputs[i]))]
    /\ settled' = [i \in 1..Len(batchInputs) |-> "pending"]
    /\ batchPc' = IF batchInputs = <<>> THEN "resolved" ELSE "running"
    /\ UNCHANGED <<outsideChat, models, batchInputs, completion, batchResult, batchError>>

\* The API call of one of the pending invokes comes back, with an answer or
\* with an error, and the invoke settles: Promise.all rejects on the first
\* invoke that fails and resolves when the last one is fulfilled.
Settle ==
    /\ batchPc \in {"running", "rejected"}
    /\ \E i \in 1..Len(settled), ok \in BOOLEAN :
         /\ settled[i] = "pending"
         /\ settled' = [settled EXCEPT ![i] = IF ok THEN "fulfilled" ELSE "rejected"]
         /\ completion' = Append(completion, i)
         /\ IF batchPc = "running" /\ ~ok
            THEN /\ batchPc' = "rejected"
                 /\ batchError' = ApplicationError(<<"Pollinations API error: ", "500", " - ">>)
                 /\ UNCHANGED batchResult
            ELSE IF batchPc = "running" /\ \A j \in 1..Len(settled) : settled'[j] = "fulfilled"
            THEN /\ batchPc' = "resolved"
                 /\ batchResult' = PromiseAll([j \in 1..Len(batchInputs) |-> AIMessage(batchInputs[j])],
                                              completion')
                 /\ UNCHANGED batchError
            ELSE UNCHANGED <<batchPc, batchResult, batchError>>
    /\ UNCHANGED <<outsideChat, models, calls, batchInputs>>

BatchNext == Batch \/ Settle

BatchSpec == BatchInit /\ [][BatchNext]_vars

\* ------------------------------------------------------------ properties
\* The URLs of the status and of the result endpoint of the submitted job,
\* written out.
ExpectedStatusUrl ==
    <<"https://queue.fal.run">> \o statusBasePath
      \o <<"/", "requests", "/">> \o requestId.v \o <<"/", "status">>

ExpectedResultUrl ==
    <<"https://queue.fal.run">> \o statusBasePath \o <<"/", "requests", "/">> \o requestId.v

StatusGetAt(i) ==
    trace[i].kind = "http" /\ trace[i].method = "GET" /\ trace[i].url = ExpectedStatusUrl

ResultGetAt(i) ==
    trace[i].kind = "http" /\ trace[i].method = "GET" /\ trace[i].url = ExpectedResultUrl

\* the HTTP call at i was rejected with HTTP status code
RejectedAt(i, code) ==
    trace[i].kind = "http" /\ ~trace[i].ok /\ trace[i].hasResponse /\ trace[i].code = code

\* the HTTP call at i succeeded and its payload has status st
AnsweredAt(i, st) ==
    trace[i].kind = "http" /\ trace[i].ok /\ trace[i].body.status = Str(<<st>>)

\* the payload carries a result field: images, video or output is present
\* with a value other than null, '', 0 and false
Embedded(b) ==
    \E f \in {b.images, b.video, b.output} :
        f \notin {Undef, Null, EmptyStr, Num(<<"0">>), Bool(<<"false">>)}

\* the payload's status is neither COMPLETED nor FAILED
NonTerminalAt(i) ==
    trace[i].kind = "http" /\ trace[i].ok
      /\ trace[i].body.status \notin {Str(<<"COMPLETED">>), Str(<<"FAILED">>)}

\* the HTTP calls of the trace, in order
HttpTrace == SelectSeq(trace, LAMBDA e : e.kind = "http")

\* the result executeAsync returns for raw payload b
ResultFrom(b) ==
    [json |-> [images |-> b.images, video |-> b.video, output |-> b.output],
     pairedItem |-> itemIndex]

\* C1: whenever a status poll fails with HTTP status 405, the next HTTP call
\* of the invocation is a GET of the plain result endpoint (the invocation
\* neither fails there nor polls the status again).
C1_After405NextIsResultGet ==
    \A i \in 1..Len(trace) :
        (StatusGetAt(i) /\ RejectedAt(i, 405))
            => (i < Len(trace) /\ ResultGetAt(i + 1))

\* C2: when the status endpoint answers 405 and the result endpoint answers
\* the probe with 404 or 422, the invocation does not fail: it has probed the
\* result endpoint, waited one poll interval and stands before its next
\* status poll.
C2_ProbeNotReadyContinues ==
    (upstream.status = 405 /\ upstream.result \in {404, 422})
        => /\ pc = "poll"
           /\ Len(trace) >= 3
           /\ StatusGetAt(Len(trace) - 2)
           /\ ResultGetAt(Len(trace) - 1)
           /\ trace[Len(trace)] = WaitEvent(2000)

\* C3: when a status poll reports COMPLETED without result fields and the
\* GET of the result endpoint that follows fails, then with status 404 or 422
\* the invocation returns the result normalized from the status payload, and
\* with any other failure the invocation fails.
C3_CompletedFetchFallback ==
    \A i \in 1..(Len(trace) - 1) :
        (/\ StatusGetAt(i) /\ AnsweredAt(i, "COMPLETED") /\ ~Embedded(trace[i].body)
         /\ ResultGetAt(i + 1) /\ ~trace[i + 1].ok)
            => IF trace[i + 1].hasResponse /\ trace[i + 1].code \in {404, 422}
               THEN pc = "done" /\ result = ResultFrom(trace[i].body)
               ELSE pc = "failed"

\* C4: the error raised for a failed HTTP call carries the HTTP status code
\* of the response where the caller reads it (error.response.statusCode).
C4_ErrorCarriesStatusCode ==
    (/\ pc = "failed" /\ trace # <<>>
     /\ trace[Len(trace)].kind = "http" /\ ~trace[Len(trace)].ok
     /\ trace[Len(trace)].hasResponse)
        => (error.hasResponse /\ error.statusCode = trace[Len(trace)].code)

\* C5: a submission response whose request_id is absent, null or the empty
\* string makes executeAsync fail with 'Failed to get request_id ...', and the
\* submission POST is the only HTTP call of the invocation.
C5_MissingRequestIdFailsBeforePolling ==
    (/\ trace # <<>> /\ trace[1].kind = "http" /\ trace[1].method = "POST" /\ trace[1].ok
     /\ trace[1].body.request_id \in {Undef, Null, EmptyStr})
        => /\ pc = "failed"
           /\ error.message = <<"Failed to get request_id from async submission">>
           /\ Len(trace) = 1

C5_Witness ==
    /\ pc = "failed" /\ Len(trace) = 1 /\ trace[1].method = "POST" /\ trace[1].ok
    /\ trace[1].body.request_id = EmptyStr

C7_OneResultGetAfterCompleted ==
    \A i \in 1..Len(trace) :
        (StatusGetAt(i) /\ AnsweredAt(i, "COMPLETED") /\ ~Embedded(trace[i].body))
            => /\ Len(trace) = i + 1
               /\ ResultGetAt(i + 1)
               /\ pc \in {"done", "failed"}

C7_Witness ==
    /\ pc = "done" /\ Len(trace) >= 2
    /\ StatusGetAt(Len(trace) - 1) /\ AnsweredAt(Len(trace) - 1, "COMPLETED")
    /\ ~Embedded(trace[Len(trace) - 1].body)
    /\ ResultGetAt(Len(trace)) /\ trace[Len(trace)].ok

\* C8: a status poll answered FAILED ends the invocation with an error and no
\* further HTTP call; the message holds the upstream error text when the
\* payload has one and 'Unknown error' otherwise.
C8_FailedStatusIsFatal ==
    \A i \in 1..Len(trace) :
        (StatusGetAt(i) /\ AnsweredAt(i, "FAILED"))
            => /\ i = Len(trace)
               /\ pc = "failed"
               /\ error.message =
                    <<"Async request failed: ">>
                      \o (IF trace[i].body.error \in {Undef, Null, EmptyStr}
                          THEN <<"Unknown error">> ELSE trace[i].body.error.v)

C8_Witness ==
    /\ pc = "failed" /\ trace # <<>>
    /\ StatusGetAt(Len(trace)) /\ AnsweredAt(Len(trace), "FAILED")
    /\ trace[Len(trace)].body.error = Str(<<"quota exceeded">>)
    /\ error.message = <<"Async request failed: ", "quota exceeded">>

\* n is a status poll answered COMPLETED with a result field, and every
\* status poll before it was answered with a non-terminal status
C9_Scenario(n) ==
    /\ trace[1].kind = "http" /\ trace[1].method = "POST" /\ trace[1].ok
    /\ StatusGetAt(n) /\ AnsweredAt(n, "COMPLETED") /\ Embedded(trace[n].body)
    /\ \A i \in 1..(n - 1) : StatusGetAt(i) => NonTerminalAt(i)

C10_PendingWaitsThenPolls ==
    /\ \A i \in 1..Len(trace) :
         (StatusGetAt(i) /\ NonTerminalAt(i))
            => /\ i < Len(trace)
               /\ trace[i + 1] = WaitEvent(2000)
               /\ IF i + 1 = Len(trace)
                  THEN pc = "poll"
                  ELSE StatusGetAt(i + 2)
    /\ \A i \in 1..(Len(trace) - 1) : ~(StatusGetAt(i) /\ StatusGetAt(i + 1))

C10_Witness ==
    /\ Len(trace) >= 5
    /\ StatusGetAt(2) /\ NonTerminalAt(2) /\ trace[2].body.status = Undef
    /\ trace[3].kind = "wait"
    /\ StatusGetAt(4) /\ NonTerminalAt(4)

\* the status polls of the trace, and the last of them
PolledAt == {i \in 1..Len(trace) : StatusGetAt(i)}

LastPoll == CHOOSE i \in PolledAt : \A j \in PolledAt : j <= i

\* the submission returned a request id
Submitted ==
    /\ trace # <<>> /\ trace[1].kind = "http" /\ trace[1].method = "POST" /\ trace[1].ok
    /\ trace[1].body.request_id.t = "string" /\ trace[1].body.request_id.v # <<>>

\* the failure of the HTTP call at i is one the loop is meant to tolerate: 405
\* on the status endpoint, 404 or 422 on the result endpoint
ToleratedAt(i) ==
    /\ trace[i].hasResponse
    /\ \/ StatusGetAt(i) /\ trace[i].code = 405
       \/ ResultGetAt(i) /\ trace[i].code \in {404, 422}

\* C11: an HTTP failure other than 405 on the status endpoint and 404/422 on
\* the result endpoint ends the invocation with an error at once: it is the
\* last HTTP call of the trace and the invocation has failed with an error.
C11_OtherFailuresAreFatal ==
    \A i \in 1..Len(trace) :
        (trace[i].kind = "http" /\ ~trace[i].ok /\ ~ToleratedAt(i))
            => /\ i = Len(trace)
               /\ pc = "failed"
               /\ error # NoError
               /\ result = NoResult

C11_Witness ==
    /\ pc = "failed" /\ Len(trace) >= 3
    /\ ResultGetAt(Len(trace)) /\ RejectedAt(Len(trace), 500)
    /\ error # NoError

\* C12: with supportsAsync false executeAsync fails with the domain error
\* before anything else: no credential lookup, no ensureApiKey, no
\* buildRequestParams and no HTTP call.
C12_UnsupportedFailsFirst ==
    (~config.supportsAsync /\ pc # "ready")
        => /\ pc = "failed"
           /\ error.message = <<"Model does not support asynchronous requests">>
           /\ lookups = 0 /\ ensures = 0 /\ built = 0
           /\ apiKey = Null
           /\ trace = <<>>

C12_Witness ==
    /\ ~config.supportsAsync /\ pc = "failed"
    /\ credentials.apiKey = Num(<<"42">>)
    /\ lookups = 0

ExpectedBasePath ==
    IF config.endpoint = <<"/", "fal-ai", "/", "kling-video", "/", "o1", "/", "image-to-video">>
    THEN <<"/", "fal-ai", "/", "kling-video">>
    ELSE config.endpoint

\* C14: every GET of the invocation comes after a submission that returned a
\* non-empty request id, and goes to the status or the result endpoint of that
\* one request id under the one base path derived from config.endpoint.
C14_OneHandleOneBasePath ==
    /\ pc = "poll" => (Submitted /\ requestId = trace[1].body.request_id
                        /\ statusBasePath = ExpectedBasePath)
    /\ \A i \in 1..Len(trace) :
         (trace[i].kind = "http" /\ trace[i].method = "GET")
            => /\ i > 1 /\ Submitted
               /\ LET base == <<"https://queue.fal.run">> \o ExpectedBasePath
                                \o <<"/", "requests", "/">> \o trace[1].body.request_id.v
                  IN trace[i].url \in {base, base \o <<"/", "status">>}

C14_Witness ==
    /\ pc = "done" /\ Len(HttpTrace) >= 4
    /\ config.endpoint # ExpectedBasePath
    /\ StatusGetAt(2) /\ ResultGetAt(Len(trace))

\* C15: against an upstream that answers every call and finishes the job,
\* every invocation ends: it returns a result or raises an error.
C15_Terminates == <>(pc \in {"done", "failed"})

C15_Witness ==
    /\ pc = "done" /\ Cardinality(PolledAt) >= 2
    /\ AnsweredAt(LastPoll, "COMPLETED")

\* C16: while every status poll succeeds with a non-terminal status the
\* invocation neither returns nor fails, and it can poll again, however many
\* polls it has made.
C16_NoPollLimit ==
    (Submitted /\ pc # "submit" /\ \A i \in PolledAt : NonTerminalAt(i))
        => /\ pc = "poll"
           /\ result = NoResult /\ error = NoError
           /\ Cardinality(PolledAt) < MaxPolls => ENABLED Poll

C16_Witness ==
    /\ pc = "poll" /\ Cardinality(PolledAt) = MaxPolls
    /\ \A i \in PolledAt : NonTerminalAt(i)

GoodCredential ==
    /\ credentials.t = "object" /\ "apiKey" \in credentials.keys
    /\ credentials.apiKey.t \in {"string", "number"}
    /\ \E n \in 1..Len(credentials.apiKey.v) : credentials.apiKey.v[n] # " "

\* the trimmed string form of the stored apiKey
ExpectedKey ==
    IF credentials.apiKey = Str(<<" ", "sk_1", " ">>)
    THEN Str(<<"sk_1">>)
    ELSE Str(credentials.apiKey.v)

\* C18: with a credential that fails validation every call of ensureApiKey
\* fails with an error, the key stays null and no HTTP request is issued;
\* with a valid credential the key is the trimmed string form of the field.
C18_CredentialFailures ==
    /\ ~GoodCredential
         => /\ apiKey = Null
            /\ trace = <<>>
            /\ pc \in {"ready", "failed"}
            /\ ensures >= 1 => (error # NoError /\ error.message[1] # "API request failed: ")
    /\ GoodCredential
         => apiKey = (IF ensures >= 1 THEN ExpectedKey ELSE Null)

C18_Witness ==
    /\ credentials.apiKey = Str(<<" ">>)
    /\ ensures >= 2 /\ pc = "failed"
    /\ apiKey = Null /\ trace = <<>>

\* the API keys the stored credentials resolve to
ResolvedKeys == {<<"sk_1">>, <<"42">>}

\* C20: when an invocation fails on a rejected HTTP call, the error message
\* holds the Authorization header of the request with the API key in clear,
\* and holds no other key: the same failure under another key gives another
\* message.
C20_KeyInErrorText ==
    (pc = "failed" /\ trace # <<>> /\ trace[Len(trace)].kind = "http" /\ ~trace[Len(trace)].ok)
        => /\ apiKey # Null /\ apiKey.v \in ResolvedKeys
           /\ Includes(error.message, <<"Authorization: Key ">> \o apiKey.v)
           /\ \A k \in ResolvedKeys \ {apiKey.v} :
                  ~Includes(error.message, <<"Authorization: Key ">> \o k)

C20_Witness ==
    /\ pc = "failed" /\ Len(trace) >= 3
    /\ trace[Len(trace)].kind = "http" /\ ~trace[Len(trace)].ok
    /\ apiKey = Str(<<"sk_1">>)
    /\ Includes(error.message, <<"Authorization: Key ", "sk_1">>)

\* The known families in the order they are tested: the prefix returned, and
\* the text that has to occur in the endpoint (anywhere, or at its start).
Families ==
    << [prefix |-> <<"/", "fal-ai", "/", "kling-video">>,
        text |-> <<"/", "kling-video", "/">>, atStart |-> FALSE],
       [prefix |-> <<"/", "wan", "/", "v2.6">>,
        text |-> <<"/", "wan", "/", "v2.6", "/">>, atStart |-> TRUE],
       [prefix |-> <<"/", "fal-ai", "/", "z-image">>,
        text |-> <<"/", "z-image", "/">>, atStart |-> FALSE],
       [prefix |-> <<"/", "fal-ai", "/", "nano-banana-pro">>,
        text |-> <<"/", "nano-banana-pro", "/">>, atStart |-> FALSE],
       [prefix |-> <<"/", "fal-ai", "/", "bytedance">>,
        text |-> <<"/", "bytedance", "/">>, atStart |-> FALSE] >>

\* p is a prefix of e
IsPrefixOf(p, e) == Len(p) <= Len(e) /\ \A n \in 1..Len(p) : p[n] = e[n]

\* text t occurs in e at position i
OccursAt(t, e, i) == i + Len(t) - 1 <= Len(e) /\ \A n \in 1..Len(t) : e[i + n - 1] = t[n]

\* endpoint e matches family n
MatchesFamily(n, e) ==
    /\ IsPrefixOf(Families[n].prefix, e)
    /\ \E i \in 1..(IF Families[n].atStart THEN 1 ELSE Len(e)) : OccursAt(Families[n].text, e, i)

\* C19: for every endpoint getStatusBasePath returns a prefix of the endpoint
\* that is a family prefix or the endpoint itself: the prefix of the first
\* family, in the fixed order, that the endpoint matches, and the endpoint
\* unchanged when it matches none.
C19_FamilyPrefixOrIdentity ==
    pc = "derived"
        => /\ IsPrefixOf(statusBasePath, config.endpoint)
           /\ \A n \in 1..Len(Families) :
                  (MatchesFamily(n, config.endpoint)
                     /\ \A m \in 1..(n - 1) : ~MatchesFamily(m, config.endpoint))
                      => statusBasePath = Families[n].prefix
           /\ (\A n \in 1..Len(Families) : ~MatchesFamily(n, config.endpoint))
                  => statusBasePath = config.endpoint

C19_Witness ==
    /\ pc = "derived"
    /\ config.endpoint = <<"/", "fal-ai", "/", "bytedance", "/", "kling-video", "/">>
    /\ statusBasePath = <<"/", "fal-ai", "/", "bytedance">>

\* the execution is not a tool call: the loop over the items runs
LoopExecution == toolCall \in {Null, ParameterError}

\* the execution is over
NodeEnded == nodePc \in {"returned", "thrown"}

\* C22: with continueOnFail the execution returns one record per input item,
\* in input order, record i paired with item i, whatever items fail; without
\* it the first failing item ends the execution and no later item is
\* processed.
C22_OneRecordPerItem ==
    (LoopExecution /\ NodeEnded)
        => IF continueOnFail
           THEN /\ nodePc = "returned"
                /\ Len(output) = Len(items)
                /\ \A i \in 1..Len(output) : output[i].pairedItem = i - 1
           ELSE nodePc = "thrown"
                    => /\ returnData = SelectSeq(returnData, LAMBDA r : r.error = NoError)
                       /\ Len(called) <= Len(returnData) + 1

\* C23: with continueOnFail the error record of a failed item i carries the
\* json of input item i, and building the record never fails.
C23_ErrorRecordCarriesItemJson ==
    (LoopExecution /\ continueOnFail)
        => /\ nodePc # "thrown"
           /\ \A k \in 1..Len(returnData) :
                  returnData[k].error # NoError
                      => returnData[k].json = items[returnData[k].pairedItem + 1]

\* C24: with a toolCall parameter present execute runs executeTool only and
\* never the loop over the items: a tool that succeeds gives exactly one
\* output item, a tool that fails (an unsupported tool name included) makes
\* execute fail with 'Tool execution failed: ...'.
C24_ToolCallRunsToolOnly ==
    (~LoopExecution /\ nodePc # "start")
        => /\ NodeEnded
           /\ returnData = <<>>
           /\ \A k \in 1..Len(called) : called[k].via = "tool"
           /\ nodePc = "returned" => Len(output) = 1
           /\ nodePc = "thrown" => nodeError.message[1] = "Tool execution failed: "

C24_Witness ==
    /\ toolCall = ToolCall("generate_image")
    /\ Len(items) >= 2
    /\ nodePc = "thrown"
    /\ called = <<[via |-> "tool", item |-> 0]>>

\* C25: when executeTool is over, with a result or with an error,
\* this.getNodeParameter is the original function again.
C25_GetNodeParameterRestored ==
    (~LoopExecution /\ NodeEnded) => getNodeParameter = "original"

\* the events of a list of lines, up to the end marker
RECURSIVE EventsOf(_)
EventsOf(lines) ==
    IF lines = <<>> \/ Head(lines) = "done"
    THEN <<>>
    ELSE (CASE Head(lines) \in {"a", "a-cr"} -> <<"a">>
            [] Head(lines) = "b" -> <<"b">>
            [] OTHER -> <<>>)
           \o EventsOf(Tail(lines))

\* the lines of the response that end in a newline
TerminatedLines ==
    IF script.terminated THEN script.lines ELSE SubSeq(script.lines, 1, Len(script.lines) - 1)

\* s is a prefix of t
IsPrefixSeq(s, t) == Len(s) <= Len(t) /\ SubSeq(t, 1, Len(s)) = s

\* C26: streamResponse yields, in arrival order, one event per
\* newline-terminated data line with valid JSON, skips empty and invalid data
\* lines and yields nothing from the [DONE] line on, however the body is
\* split into chunks.
C26_EventsWhateverTheChunks ==
    /\ IsPrefixSeq(yielded, EventsOf(TerminatedLines))
    /\ streamPc = "ended" => yielded = EventsOf(TerminatedLines)

C26_Witness ==
    /\ streamPc = "ended"
    /\ script = [lines |-> <<"a-cr", "invalid", "b">>, terminated |-> TRUE]
    /\ yielded = <<"a", "b">>
    /\ delivered = Len(BodyText(script))

\* C27: no event is lost: every data line with valid JSON sent before [DONE]
\* or before the end of the body is yielded exactly once, a last line without
\* a newline included, and the reader's lock is released on every way out.
C27_NoEventLost ==
    /\ streamPc = "ended" => yielded = EventsOf(script.lines)
    /\ streamPc \in {"ended", "thrown"} => ~locked

\* C28: func of an agent tool never throws: whatever the input and whatever
\* the HTTP request comes to, it returns a JSON text whose success is true
\* exactly when the response was ok and its body was read, and that otherwise
\* holds an error text and the prompt.
C28_FuncNeverThrows ==
    toolPc # "ready"
        => /\ toolPc = "returned"
           /\ toolResult.success <=> toolResponse \in {"ok", "ok null"}
           /\ ~toolResult.success => (toolResult.error # <<>> /\ toolResult.prompt = prompt)

\* the tool list instance i is meant to carry just before call number k: the
\* list of the last bindTools on i before k, and for an instance made by
\* withConfig that has had no bindTools of its own, the list its parent was
\* meant to carry when it was made
RECURSIVE MeantTools(_, _)
MeantTools(i, k) ==
    LET binds == {j \in 1..(k - 1) : calls[j].op = "bindTools" /\ calls[j].on = i}
        made == {j \in 1..(k - 1) : calls[j].op = "withConfig" /\ calls[j].made = i}
    IN IF binds # {}
       THEN calls[CHOOSE j \in binds : \A h \in binds : h <= j].tools
       ELSE IF made # {}
       THEN LET c == CHOOSE j \in made : TRUE IN MeantTools(calls[c].on, c)
       ELSE <<>>

\* C30: once a non-empty tool list is bound, every request made through the
\* model, an instance made from it with withConfig included, carries that
\* list with tool_choice 'auto'.
C30_ToolsStayBound ==
    \A k \in 1..Len(calls) :
        (calls[k].op = "invoke" /\ MeantTools(calls[k].on, k) # <<>>)
            => /\ calls[k].request.tools = MeantTools(calls[k].on, k)
               /\ calls[k].request.tool_choice = "auto"

\* C29: batch starts one invoke per input, in input order, and resolves with
\* the results in input order whatever order the API calls complete in; when
\* one of the calls fails the batch fails and returns no list.
C29_BatchInInputOrder ==
    /\ batchPc \notin {"idle", "ready"}
         => /\ Len(calls) = Len(batchInputs)
            /\ \A i \in 1..Len(calls) :
                   calls[i].op = "invoke" /\ calls[i].request.input = batchInputs[i]
    /\ batchPc = "resolved"
         => /\ Len(batchResult) = Len(batchInputs)
            /\ \A i \in 1..Len(batchInputs) : batchResult[i].content = <<"re: ", batchInputs[i]>>
    /\ (\E i \in 1..Len(settled) : settled[i] = "rejected")
         => (batchPc = "rejected" /\ batchResult = <<>> /\ batchError # NoError)

C29_Witness ==
    /\ batchPc = "resolved"
    /\ batchInputs = <<"x", "y", "x">>
    /\ completion = <<2, 3, 1>>
    /\ Len(batchResult) = 3

\* ------------------------------------------------------------------- C21
\* invocation i of the two, running or suspended
InvocationOf(i) == IF running = i THEN Invocation ELSE peer

\* the key ensureApiKey resolves from the credentials of an adapter
OwnKey(inv) == resolveApiKey(Null, inv.credentials).apiKey

\* C21: two executeAsync invocations on distinct adapter instances are
\* independent under every interleaving.  Whatever the order in which the
\* event loop runs them, the state of an invocation (its fields, its request
\* id, its status base path, the requests it has issued and what they were
\* answered, its result or error) changes only by a step that invocation takes
\* itself, that step is a step of executeAsync running alone, and the key it
\* holds is none or the one resolved from its own credentials.
C21_InvocationsIndependent ==
    [][\A i \in {1, 2} :
          /\ InvocationOf(i)' # InvocationOf(i) => running = i /\ running' = i /\ Next
          /\ InvocationOf(i)'.apiKey \in {Null, OwnKey(InvocationOf(i))}]_vars

\* Both invocations ran interleaved to the end, each with its own key and its
\* own status URL.
C21_Witness ==
    /\ switches >= 2
    /\ InvocationOf(1).pc = "done"
    /\ InvocationOf(2).pc = "done"
    /\ InvocationOf(1).apiKey = Str(<<"sk_1">>)
    /\ InvocationOf(2).apiKey = Str(<<"42">>)
    /\ InvocationOf(1).statusBasePath # InvocationOf(2).statusBasePath
    /\ Len(InvocationOf(1).trace) >= 2
    /\ Len(InvocationOf(2).trace) >= 2

====
